---- MODULE Spec2Model ----
(***************************************************************************)
(* Model of the go-local-RAG service: the chunker, the indexing path       *)
(* (upload handler -> RAGService.IndexDocument -> PostgresRepository),     *)
(* the similarity search and the SSE answer stream of the query handler.   *)
(*                                                                         *)
(* Strings are sequences of one-character strings.  Four specifications    *)
(* share the variables; each one drives one part of the program and keeps  *)
(* the other variables at their initial value:                             *)
(*   SpecChunk   one run of RAGService.ChunkText, loop iteration by         *)
(*               iteration, over bounded texts, sizes and overlaps          *)
(*   SpecIndex   concurrent /api/upload requests and one store reader over  *)
(*               the single shared pgx connection                          *)
(*   SpecSearch  PostgresRepository.SearchSimilar over a small table        *)
(*   SpecAnswer  one /api/query request, up to the end of its SSE stream    *)
(***************************************************************************)
EXTENDS Integers, Sequences, FiniteSets, TLC

VARIABLES
    \* RAGService configuration (NewRAGService)
    chunkSize, chunkOverlap,
    \* one run of ChunkText
    text, words, step, i, chunks, ckpc,
    \* the documents table and the shared connection
    documents, connStatus,
    \* upload requests and the concurrent store reader
    req, reader,
    \* one SearchSimilar call
    centers, search,
    \* one query request
    qpc, question, lookup, connected, body, received, sent, httpStatus

chunkVars  == <<text, words, step, i, chunks, ckpc>>
cfgVars    == <<chunkSize, chunkOverlap>>
storeVars  == <<documents, connStatus>>
indexVars  == <<req, reader>>
searchVars == <<centers, search>>
answerVars == <<qpc, question, lookup, connected, body, received, sent, httpStatus>>
vars == <<cfgVars, chunkVars, storeVars, indexVars, searchVars, answerVars>>

(***************************************************************************)
(* Bounds of the model.                                                    *)
(***************************************************************************)
MaxTextLen == 7
MaxSize == 3

Min(a, b) == IF a < b THEN a ELSE b
Max(a, b) == IF a > b THEN a ELSE b

(***************************************************************************)
(* Strings: strings.Fields, strings.Join, strings.TrimSpace.               *)
(***************************************************************************)
TextChars == {"a", "b", " "}

IsSpace(c) == c = " "

RECURSIVE StringsUpTo(_, _)
StringsUpTo(alphabet, n) ==
    IF n = 0 THEN {<<>>}
    ELSE LET shorter == StringsUpTo(alphabet, n - 1)
         IN  shorter \cup {Append(s, c) : s \in {t \in shorter : Len(t) = n - 1}, c \in alphabet}

RECURSIVE FieldsFrom(_, _, _)
FieldsFrom(s, k, cur) ==
    IF k > Len(s) THEN (IF cur = <<>> THEN <<>> ELSE <<cur>>)
    ELSE IF IsSpace(s[k])
         THEN (IF cur = <<>> THEN FieldsFrom(s, k + 1, <<>>)
               ELSE <<cur>> \o FieldsFrom(s, k + 1, <<>>))
         ELSE FieldsFrom(s, k + 1, Append(cur, s[k]))

\* strings.Fields: the maximal runs of non-space characters, in order
Fields(s) == FieldsFrom(s, 1, <<>>)

RECURSIVE Join(_, _)
\* strings.Join(ws, sep)
Join(ws, sep) ==
    IF ws = <<>> THEN <<>>
    ELSE IF Len(ws) = 1 THEN ws[1]
    ELSE ws[1] \o sep \o Join(Tail(ws), sep)

RECURSIVE TrimLeft(_)
TrimLeft(s) == IF s # <<>> /\ IsSpace(s[1]) THEN TrimLeft(Tail(s)) ELSE s

RECURSIVE TrimRight(_)
TrimRight(s) ==
    IF s # <<>> /\ IsSpace(s[Len(s)]) THEN TrimRight(SubSeq(s, 1, Len(s) - 1)) ELSE s

\* strings.TrimSpace
TrimSpace(s) == TrimRight(TrimLeft(s))

(***************************************************************************)
(* RAGService.ChunkText.                                                   *)
(***************************************************************************)
StepIgnoresOverlap(size, overlap) == size

StepCollapsedToOne(size, overlap) ==
    IF size - overlap <= 0 THEN 1 ELSE size - overlap

\* step := chunkSize - chunkOverlap; if step <= 0 { step = chunkSize }
ChunkStep(size, overlap) ==
    IF size - overlap <= 0 THEN size ELSE size - overlap

\* one loop body: the clipped end and the joined window starting at token idx
ChunkBody(ws, size, idx) ==
    LET end == IF idx + size > Len(ws) THEN Len(ws) ELSE idx + size
    IN  [end |-> end, chunk |-> Join(SubSeq(ws, idx + 1, end), <<" ">>)]

RECURSIVE ChunkLoop(_, _, _, _, _)
ChunkLoop(ws, size, st, idx, acc) ==
    IF ~(idx < Len(ws)) THEN acc
    ELSE LET b == ChunkBody(ws, size, idx)
         IN  IF b.end = Len(ws) THEN Append(acc, b.chunk)
             ELSE ChunkLoop(ws, size, st, idx + st, Append(acc, b.chunk))

\* the whole function, as IndexDocument calls it
ChunkText(t, size, overlap) ==
    IF size <= 0 THEN <<t>>
    ELSE ChunkLoop(Fields(t), size, ChunkStep(size, overlap), 0, <<>>)

(***************************************************************************)
(* Initial values of the parts a specification does not drive.             *)
(***************************************************************************)
Reqs == {1, 2}

NoError == [kind |-> "none", index |-> -1, cause |-> "none"]

NewReq == [pc |-> "new", content |-> <<>>, source |-> "", chunks |-> <<>>, idx |-> 0,
           emb |-> <<>>, embedCalls |-> 0, err |-> NoError, status |-> 0]

IdleReader == [pc |-> "idle", outcome |-> "none"]

IdleSearch == [pc |-> "idle", q |-> <<>>, topK |-> 0, plan |-> "none", fault |-> "none",
               docs |-> <<>>, err |-> "none"]

IdleChunk ==
    /\ text = <<>> /\ words = <<>> /\ step = 0 /\ i = 0 /\ chunks = <<>> /\ ckpc = "idle"

IdleStore == documents = <<>> /\ connStatus = "idle"

IdleIndex == req = [r \in Reqs |-> NewReq] /\ reader = IdleReader

IdleSearchVars == centers = {} /\ search = IdleSearch

NoLookup == [embed |-> "none", store |-> "none"]

IdleAnswer ==
    /\ qpc = "idle" /\ question = <<>> /\ lookup = NoLookup
    /\ connected = TRUE /\ received = <<>>
    /\ sent = <<>> /\ httpStatus = 0 /\ body = <<>>

(***************************************************************************)
(* SpecChunk: one run of ChunkText, one action per loop iteration.         *)
(***************************************************************************)
InitChunk ==
    /\ chunkSize \in -1..MaxSize
    /\ chunkOverlap \in -1..(MaxSize + 1)
    /\ text \in StringsUpTo(TextChars, MaxTextLen)
    /\ words = <<>> /\ step = 0 /\ i = 0 /\ chunks = <<>> /\ ckpc = "entry"
    /\ IdleStore /\ IdleIndex /\ IdleSearchVars /\ IdleAnswer

\* lines 43-51: split, the degenerate size, the step
ChunkTextEntry ==
    /\ ckpc = "entry"
    /\ words' = Fields(text)
    /\ IF chunkSize <= 0
       THEN /\ chunks' = <<text>>
            /\ ckpc' = "done"
            /\ UNCHANGED <<step, i>>
       ELSE /\ step' = ChunkStep(chunkSize, chunkOverlap)
            /\ i' = 0
            /\ chunks' = <<>>
            /\ ckpc' = "loop"
    /\ UNCHANGED <<text, cfgVars, storeVars, indexVars, searchVars, answerVars>>

\* lines 52-62: one iteration of the for loop
ChunkTextIter ==
    /\ ckpc = "loop"
    /\ i < Len(words)
    /\ LET b == ChunkBody(words, chunkSize, i)
       IN  /\ chunks' = Append(chunks, b.chunk)
           /\ IF b.end = Len(words)
              THEN ckpc' = "done" /\ i' = i
              ELSE ckpc' = "loop" /\ i' = i + step
    /\ UNCHANGED <<text, words, step, cfgVars, storeVars, indexVars, searchVars, answerVars>>

\* line 52: the loop condition fails
ChunkTextExit ==
    /\ ckpc = "loop"
    /\ ~(i < Len(words))
    /\ ckpc' = "done"
    /\ UNCHANGED <<text, words, step, i, chunks, cfgVars, storeVars, indexVars,
                   searchVars, answerVars>>

NextChunk == ChunkTextEntry \/ ChunkTextIter \/ ChunkTextExit

SpecChunk == InitChunk /\ [][NextChunk]_vars

\* the loop runs in one goroutine that is never descheduled for ever
FairSpecChunk == SpecChunk /\ WF_vars(NextChunk)

(***************************************************************************)
(* Claims about ChunkText.                                                 *)
(***************************************************************************)
TokenWindow(ws, from, to) == Join(SubSeq(ws, from + 1, to), <<" ">>)

C7_Pre == Len(Fields(text)) > 0 /\ chunkSize > 0 /\ 0 <= chunkOverlap /\ chunkOverlap < chunkSize

\* index of the first fragment whose clipped end is the end of the tokens
C7_LastK(n, size, st) ==
    CHOOSE k \in 0..n : /\ Min(k * st + size, n) = n
                        /\ \A j \in 0..(k - 1) : Min(j * st + size, n) # n

C7_Expected ==
    LET n  == Len(words)
        st == chunkSize - chunkOverlap
    IN  [k \in 1..(C7_LastK(n, chunkSize, st) + 1) |->
            TokenWindow(words, (k - 1) * st, Min((k - 1) * st + chunkSize, n))]

\* C7: for a non-empty token sequence, size > 0 and 0 <= overlap < size, the
\* result of ChunkText is the windows [k*step, min(k*step+size, n)) for
\* k = 0, 1, ... up to the first window that ends at n; every fragment has at
\* most size tokens, the last one ends at the end of the tokens, and the run
\* agrees with every other evaluation on the same input.
C7_ChunkTextWindows ==
    (ckpc = "done" /\ C7_Pre) =>
        /\ chunks = C7_Expected
        /\ \A k \in 1..Len(chunks) : Len(Fields(chunks[k])) <= chunkSize
        /\ LET last == Fields(chunks[Len(chunks)])
           IN  last = SubSeq(words, Len(words) - Len(last) + 1, Len(words))
        /\ chunks = ChunkText(text, chunkSize, chunkOverlap)

C7_Witness ==
    /\ ckpc = "done" /\ C7_Pre
    /\ chunkOverlap >= 1
    /\ Len(chunks) >= 2
    /\ Len(Fields(chunks[Len(chunks)])) < chunkSize

C8_Pre == chunkSize > 0 /\ chunkOverlap >= chunkSize

C8_Windows ==
    LET n == Len(words)
        cnt == (n + chunkSize - 1) \div chunkSize
    IN  [k \in 1..cnt |-> TokenWindow(words, (k - 1) * chunkSize, Min(k * chunkSize, n))]

\* C8: with size > 0 and overlap >= size the step is size, the loop index
\* grows on every iteration, the run ends, and the result is the
\* non-overlapping windows of size tokens.
C8_ChunkTextTerminates ==
    /\ []((C8_Pre /\ ckpc \in {"loop", "done"}) => step = chunkSize)
    /\ []((C8_Pre /\ ckpc = "done") => chunks = C8_Windows)
    /\ [][(C8_Pre /\ ckpc = "loop" /\ ckpc' = "loop") => i' > i]_vars
    /\ <>(ckpc = "done")

C8_Witness ==
    /\ ckpc = "done" /\ C8_Pre
    /\ Len(chunks) >= 2
    /\ Len(Fields(chunks[Len(chunks)])) < chunkSize

(***************************************************************************)
(* The embedding backend and RAGService.GenerateEmbedding.                 *)
(***************************************************************************)
\* what POST /api/embeddings can come back with
EmbedReplies ==
    { [kind |-> "unreachable", embedding |-> <<>>],
      [kind |-> "status",      embedding |-> <<>>],
      [kind |-> "badjson",     embedding |-> <<>>],
      [kind |-> "ok",          embedding |-> <<>>],
      [kind |-> "ok",          embedding |-> <<1, 0>>] }

\* lines 75-93: any failure of the call, a non-200 status, an undecodable
\* body and an empty vector are errors; otherwise the vector is returned
GenerateEmbedding(reply) ==
    IF reply.kind = "unreachable" THEN [ok |-> FALSE, emb |-> <<>>]
    ELSE IF reply.kind = "status" THEN [ok |-> FALSE, emb |-> <<>>]
    ELSE IF reply.kind = "badjson" THEN [ok |-> FALSE, emb |-> <<>>]
    ELSE IF Len(reply.embedding) = 0 THEN [ok |-> FALSE, emb |-> <<>>]
    ELSE [ok |-> TRUE, emb |-> reply.embedding]

(***************************************************************************)
(* SpecIndex: /api/upload requests (NewUploadHandler calling               *)
(* RAGService.IndexDocument) and one reader of the store, all on the one   *)
(* pgx connection that main opens.  net/http runs every request in its own *)
(* goroutine.  pgx.Conn is not safe for concurrent use: a call that finds   *)
(* the connection in use by another goroutine is refused with "conn busy"  *)
(* (the outcome pgx's own guard is written to produce for this misuse).    *)
(* A row of documents carries, besides its columns, the request and the    *)
(* fragment index it came from (bookkeeping for the properties).           *)
(***************************************************************************)
MaxIndexSize == 2

FormTexts == { <<>>, <<" ">>, <<"a">>, <<"a", " ", "b">>, <<"a", " ", "b", " ", "a">> }

NoFile == [present |-> FALSE, txt |-> FALSE, name |-> "", body |-> <<>>]

FormFiles ==
    { NoFile,
      [present |-> TRUE, txt |-> FALSE, name |-> "f.pdf", body |-> <<"b">>],
      [present |-> TRUE, txt |-> TRUE,  name |-> "f.txt", body |-> <<>>],
      [present |-> TRUE, txt |-> TRUE,  name |-> "f.txt", body |-> <<" ">>],
      [present |-> TRUE, txt |-> TRUE,  name |-> "f.txt", body |-> <<"b", " ", "b">>] }

ContentRejectedNoTrim(content) == content = <<>>

ContentNeverRejected(content) == FALSE

\* upload.go line 51
ContentRejected(content) == TrimSpace(content) = <<>>

RowsOf(r) == SelectSeq(documents, LAMBDA d : d.by = r)

InitIndex ==
    /\ chunkSize \in -1..MaxIndexSize
    /\ chunkOverlap \in 0..1
    /\ IdleChunk /\ IdleStore /\ IdleIndex /\ IdleSearchVars /\ IdleAnswer

Finish(r, status, err) ==
    [req[r] EXCEPT !.pc = "done", !.status = status, !.err = err]

\* upload.go lines 16-57 and part_001 lines 98-99: the form is read, the
\* content chosen and validated, IndexDocument chunks it and enters its loop
Upload(r) ==
    /\ req[r].pc = "new"
    /\ \E method \in {"POST", "GET"}, formOk \in BOOLEAN,
          formText \in FormTexts, file \in FormFiles :
         IF method # "POST"
         THEN req' = [req EXCEPT ![r] =
                         Finish(r, 405, [kind |-> "method", index |-> -1, cause |-> "method"])]
         ELSE IF ~formOk
         THEN req' = [req EXCEPT ![r] =
                         Finish(r, 400, [kind |-> "form", index |-> -1, cause |-> "form"])]
         ELSE IF file.present /\ ~file.txt
         THEN req' = [req EXCEPT ![r] =
                         Finish(r, 400, [kind |-> "validation", index |-> -1, cause |-> "extension"])]
         ELSE LET fromFile == file.present /\ file.body # <<>>
                  content  == IF fromFile THEN file.body ELSE formText
                  source   == IF fromFile THEN file.name ELSE "user_text"
                  cks      == ChunkText(content, chunkSize, chunkOverlap)
              IN  IF ContentRejected(content)
                  THEN req' = [req EXCEPT ![r] =
                                  [Finish(r, 400, [kind |-> "validation", index |-> -1,
                                                   cause |-> "empty"])
                                      EXCEPT !.content = content, !.source = source]]
                  ELSE IF cks = <<>>
                  THEN req' = [req EXCEPT ![r] =
                                  [Finish(r, 200, NoError)
                                      EXCEPT !.content = content, !.source = source]]
                  ELSE req' = [req EXCEPT ![r] =
                                  [@ EXCEPT !.pc = "embed", !.content = content,
                                            !.source = source, !.chunks = cks, !.idx = 0]]
    /\ UNCHANGED <<reader, cfgVars, chunkVars, storeVars, searchVars, answerVars>>

EmbedChunkSkipsOnError(r) ==
    /\ req[r].pc = "embed"
    /\ \E reply \in EmbedReplies :
         LET res == GenerateEmbedding(reply)
             last == req[r].idx + 1 = Len(req[r].chunks)
         IN  IF ~res.ok
             THEN req' = [req EXCEPT ![r] =
                             [@ EXCEPT !.embedCalls = @ + 1, !.idx = @ + 1,
                                       !.pc = IF last THEN "done" ELSE "embed",
                                       !.status = IF last THEN 200 ELSE 0]]
             ELSE req' = [req EXCEPT ![r] =
                             [@ EXCEPT !.pc = "insert", !.emb = res.emb, !.embedCalls = @ + 1]]
    /\ UNCHANGED <<reader, cfgVars, chunkVars, storeVars, searchVars, answerVars>>

\* part_001 lines 100-103 (and upload.go 57-60 on the error)
EmbedChunk(r) ==
    /\ req[r].pc = "embed"
    /\ \E reply \in EmbedReplies :
         LET res == GenerateEmbedding(reply)
         IN  IF ~res.ok
             THEN req' = [req EXCEPT ![r] =
                             [Finish(r, 500, [kind |-> "embedding", index |-> req[r].idx,
                                              cause |-> reply.kind])
                                 EXCEPT !.embedCalls = @ + 1]]
             ELSE req' = [req EXCEPT ![r] =
                             [@ EXCEPT !.pc = "insert", !.emb = res.emb, !.embedCalls = @ + 1]]
    /\ UNCHANGED <<reader, cfgVars, chunkVars, storeVars, searchVars, answerVars>>

\* part_001 line 104, part_000 lines 64-70: conn.Exec is issued; a connection
\* in use by another goroutine refuses it
InsertBegin(r) ==
    /\ req[r].pc = "insert"
    /\ IF connStatus = "busy"
       THEN /\ req' = [req EXCEPT ![r] =
                          Finish(r, 500, [kind |-> "storing", index |-> req[r].idx,
                                          cause |-> "conn busy"])]
            /\ UNCHANGED connStatus
       ELSE /\ req' = [req EXCEPT ![r].pc = "inserting"]
            /\ connStatus' = "busy"
    /\ UNCHANGED <<documents, reader, cfgVars, chunkVars, searchVars, answerVars>>

\* the INSERT statement completes: one row added, or an error and no row;
\* part_001 lines 105-108 continue or return
InsertEnd(r) ==
    /\ req[r].pc = "inserting"
    /\ connStatus' = "idle"
    /\ \E ok \in BOOLEAN :
         IF ok
         THEN /\ documents' = Append(documents,
                     [id |-> Len(documents) + 1, content |-> req[r].chunks[req[r].idx + 1],
                      source |-> req[r].source, embedding |-> req[r].emb,
                      list |-> <<>>, by |-> r, frag |-> req[r].idx])
              /\ req' = [req EXCEPT ![r] =
                            IF req[r].idx + 1 = Len(req[r].chunks)
                            THEN [Finish(r, 200, NoError) EXCEPT !.idx = @ + 1]
                            ELSE [@ EXCEPT !.pc = "embed", !.idx = @ + 1]]
         ELSE /\ UNCHANGED documents
              /\ req' = [req EXCEPT ![r] =
                            Finish(r, 500, [kind |-> "storing", index |-> req[r].idx,
                                            cause |-> "statement"])]
    /\ UNCHANGED <<reader, cfgVars, chunkVars, searchVars, answerVars>>

\* a /api/query request reaches conn.Query (part_000 line 75) ...
ReaderBegin ==
    /\ reader.pc = "idle"
    /\ IF connStatus = "busy"
       THEN /\ reader' = [pc |-> "done", outcome |-> "conn busy"]
            /\ UNCHANGED connStatus
       ELSE /\ reader' = [pc |-> "reading", outcome |-> "none"]
            /\ connStatus' = "busy"
    /\ UNCHANGED <<documents, req, cfgVars, chunkVars, searchVars, answerVars>>

\* ... and closes its rows (part_000 line 82), which frees the connection
ReaderEnd ==
    /\ reader.pc = "reading"
    /\ reader' = [pc |-> "done", outcome |-> "read"]
    /\ connStatus' = "idle"
    /\ UNCHANGED <<documents, req, cfgVars, chunkVars, searchVars, answerVars>>

NextIndex ==
    \/ \E r \in Reqs : Upload(r)
    \/ \E r \in Reqs : EmbedChunk(r)
    \/ \E r \in Reqs : InsertBegin(r)
    \/ \E r \in Reqs : InsertEnd(r)
    \/ ReaderBegin
    \/ ReaderEnd

SpecIndex == InitIndex /\ [][NextIndex]_vars

(***************************************************************************)
(* Claims about the indexing path.                                         *)
(***************************************************************************)
InLoop(r) == req[r].pc \in {"embed", "insert", "inserting"}

FailedAt(r) == req[r].pc = "done" /\ req[r].err.kind \in {"embedding", "storing"}

\* C1: the fragments of one call are embedded and inserted strictly in order;
\* the rows a call has persisted are always its fragments 0..idx-1, and a call
\* that failed at fragment i returns an error carrying i with exactly the
\* fragments 0..i-1 persisted.
C1_IndexPrefixPersisted ==
    \A r \in Reqs :
        LET mine == RowsOf(r)
        IN  /\ \A k \in 1..Len(mine) :
                   mine[k].frag = k - 1 /\ mine[k].content = req[r].chunks[k]
            /\ (InLoop(r) \/ FailedAt(r)) => Len(mine) = req[r].idx
            /\ FailedAt(r) => req[r].err.index = req[r].idx
            /\ FailedAt(r) => req[r].err.index = Len(mine)
            /\ req[r].embedCalls =
                   Len(mine) + (IF req[r].pc \in {"insert", "inserting"} \/ FailedAt(r)
                                THEN 1 ELSE 0)

\* the scenario of the specification: three fragments, the embedding of the
\* second fails, one row stays and the error names index 1
C1_Witness ==
    \E r \in Reqs :
        /\ FailedAt(r) /\ req[r].err.kind = "embedding" /\ req[r].err.index = 1
        /\ Len(req[r].chunks) = 3
        /\ Len(RowsOf(r)) = 1

\* C6: an upload whose content is empty after trimming is answered with the
\* validation error, and no embedding call and no insert is made for it.
C6_EmptyContentRejected ==
    \A r \in Reqs :
        (req[r].source # "" /\ TrimSpace(req[r].content) = <<>>) =>
            /\ req[r].pc = "done"
            /\ req[r].status = 400 /\ req[r].err.kind = "validation"
            /\ req[r].embedCalls = 0
            /\ RowsOf(r) = <<>>

C6_Witness ==
    \E r \in Reqs :
        /\ req[r].source = "f.txt" /\ req[r].content = <<" ">>
        /\ req[r].status = 400
        /\ documents # <<>>

\* C11: whatever size and overlap the service is configured with, size <= 0
\* included, every stored Fragment has non-empty content, and no insert is
\* issued or pending with an empty fragment string.
C11_NoEmptyFragmentStored ==
    /\ \A k \in 1..Len(documents) : documents[k].content # <<>>
    /\ \A r \in Reqs :
           InLoop(r) => \A k \in 1..Len(req[r].chunks) : req[r].chunks[k] # <<>>

\* the degenerate size: a whole text, spaces kept, stored as one fragment
C11_Witness ==
    /\ chunkSize <= 0
    /\ \E k \in 1..Len(documents) : documents[k].content = <<"a", " ", "b">>

\* C10: whatever the interleaving of the requests on the shared connection,
\* each call's rows are in increasing fragment order, every insert that
\* reported success added exactly one row, and no request fails or loses an
\* insert only because another request was using the connection.
C10_NoInterference ==
    /\ \A r \in Reqs :
           LET mine == RowsOf(r)
           IN  /\ \A k \in 1..Len(mine) : mine[k].frag = k - 1
               /\ Len(mine) = req[r].idx
    /\ \A r \in Reqs : req[r].err.cause # "conn busy"
    /\ reader.outcome # "conn busy"

(***************************************************************************)
(* SpecSearch: PostgresRepository.SearchSimilar.                           *)
(*                                                                         *)
(* Vectors are two-dimensional integer vectors (the table has 768          *)
(* dimensions); <=> is the cosine distance, compared exactly.  Init        *)
(* (part_000 line 53) creates an ivfflat index on the still empty table:   *)
(* its list centres are then arbitrary, every inserted row goes to the     *)
(* list of its nearest centre, and an index scan visits only the list      *)
(* nearest to the query vector (one probe).  Whether a query is run as a   *)
(* sequential scan with a sort or through the index is the planner's       *)
(* choice.  The order of rows at equal distance is not defined by SQL.     *)
(*                                                                         *)
(* conn.Query returns only the errors of sending the statement; an error   *)
(* of its execution (such as LIMIT with a negative count) ends rows.Next   *)
(* and is kept in rows.Err, which SearchSimilar never reads.               *)
(***************************************************************************)
MaxRows == 2
Lists == 2

Vecs == { <<1, 0>>, <<2, 0>>, <<0, 1>>, <<-1, 0>> }

Dot(a, b) == a[1] * b[1] + a[2] * b[2]

\* a <=> q is at most b <=> q, that is cos(a, q) >= cos(b, q)
CosLeq(a, b, q) ==
    LET x == Dot(a, q)
        y == Dot(b, q)
        na == Dot(a, a)
        nb == Dot(b, b)
    IN  IF x >= 0 /\ y <= 0 THEN TRUE
        ELSE IF x < 0 /\ y >= 0 THEN FALSE
        ELSE IF x >= 0 THEN x * x * nb >= y * y * na
        ELSE x * x * nb <= y * y * na

NearestCenters(v) == {c \in centers : \A d \in centers : CosLeq(c, d, v)}

\* the row sequences ORDER BY embedding <=> q can produce from a set of rows
OrderedBy(rows, q) ==
    LET n == Cardinality(rows)
    IN  {s \in [1..n -> rows] :
            /\ \A j, k \in 1..n : j # k => s[j] # s[k]
            /\ \A j \in 1..(n - 1) : CosLeq(s[j].embedding, s[j + 1].embedding, q)}

Prefix(s, n) == SubSeq(s, 1, Min(Len(s), n))

AllRows == {documents[k] : k \in 1..Len(documents)}

\* the rows the chosen plan looks at
Scanned(plan, probe) ==
    IF plan = "ivfflat" THEN {d \in AllRows : d.list = probe} ELSE AllRows

InitSearch ==
    /\ centers \in {c \in SUBSET Vecs : Cardinality(c) = Lists}
    /\ search = IdleSearch
    /\ documents = <<>> /\ connStatus = "idle"
    /\ chunkSize = 0 /\ chunkOverlap = 0
    /\ IdleChunk /\ IdleIndex /\ IdleAnswer

\* part_000 lines 63-72, the statement succeeding
InsertChunk ==
    /\ search.pc = "idle"
    /\ Len(documents) < MaxRows
    /\ \E v \in Vecs :
       \E c \in NearestCenters(v) :
         documents' = Append(documents,
             [id |-> Len(documents) + 1, content |-> <<"a">>, source |-> "user_text",
              embedding |-> v, list |-> c, by |-> 0, frag |-> 0])
    /\ UNCHANGED <<connStatus, search, centers, cfgVars, chunkVars, indexVars, answerVars>>

\* part_000 lines 74-93
SearchSimilar ==
    /\ search.pc = "idle"
    /\ \E q \in Vecs, topK \in -1..(MaxRows + 1), plan \in {"seqscan", "ivfflat"},
          fault \in {"none", "send", "exec", "scan"} :
         \E probe \in NearestCenters(q) :
           \E full \in OrderedBy(Scanned(plan, probe), q) :
             \E cut \in 0..Len(full) :
               LET limited == IF topK < 0 THEN <<>> ELSE Prefix(full, topK)
                   res ==
                     IF fault = "send" THEN [docs |-> <<>>, err |-> "error performing vector search"]
                     ELSE IF topK < 0 THEN [docs |-> <<>>, err |-> "none"]
                     ELSE IF fault = "exec" THEN [docs |-> Prefix(limited, cut), err |-> "none"]
                     ELSE IF fault = "scan" /\ limited # <<>> THEN [docs |-> <<>>, err |-> "scan"]
                     ELSE [docs |-> limited, err |-> "none"]
               IN  search' = [pc |-> "returned", q |-> q, topK |-> topK, plan |-> plan,
                              fault |-> fault, docs |-> res.docs, err |-> res.err]
    /\ UNCHANGED <<documents, connStatus, centers, cfgVars, chunkVars, indexVars, answerVars>>

NextSearch == InsertChunk \/ SearchSimilar

SpecSearch == InitSearch /\ [][NextSearch]_vars

\* C9: on a store that works, search returns the min(max(topK, 0), N) nearest
\* rows in non-decreasing distance and no error: nothing for topK <= 0 and
\* all N rows for topK >= N.
C9_SearchNearestTopK ==
    (search.pc = "returned" /\ search.fault = "none") =>
        LET docs == search.docs
            got  == {docs[k] : k \in 1..Len(docs)}
        IN  /\ search.err = "none"
            /\ Len(docs) = Min(Max(search.topK, 0), Len(documents))
            /\ Cardinality(got) = Len(docs)
            /\ got \subseteq AllRows
            /\ \A k \in 1..(Len(docs) - 1) :
                   CosLeq(docs[k].embedding, docs[k + 1].embedding, search.q)
            /\ \A d \in got, e \in AllRows \ got :
                   CosLeq(d.embedding, e.embedding, search.q)

(***************************************************************************)
(* SpecAnswer: one GET /api/query request (NewQueryHandler with            *)
(* RAGService.SearchSimilarContents as searchFn) and its caller, who may   *)
(* disconnect at any moment.  The response of POST /api/generate is a      *)
(* sequence of frames: JSON increments {response, done} or bytes that do   *)
(* not decode; it ends where the backend closes it.  The characters of a   *)
(* partial text are "n", the backslash and the newline "nl".               *)
(***************************************************************************)
MaxIncr == 2
MaxTok == 2

OutChars == {"n", "\\", "nl"}

Tokens == StringsUpTo(OutChars, MaxTok)

Frames ==
    {[kind |-> "json", response |-> t, done |-> d] : t \in Tokens, d \in BOOLEAN}
        \cup {[kind |-> "malformed", response |-> <<>>, done |-> FALSE]}

RECURSIVE FramesUpTo(_)
FramesUpTo(n) ==
    IF n = 0 THEN {<<>>}
    ELSE LET shorter == FramesUpTo(n - 1)
         IN  shorter \cup {Append(b, f) : b \in {c \in shorter : Len(c) = n - 1}, f \in Frames}

Questions == { <<>>, <<" ">>, <<"a">> }

RECURSIVE Escape(_)
\* query.go line 89: strings.ReplaceAll(chunk.Response, "\n", "\\n")
Escape(s) ==
    IF s = <<>> THEN <<>>
    ELSE IF s[1] = "nl" THEN <<"\\", "n">> \o Escape(Tail(s))
    ELSE <<s[1]>> \o Escape(Tail(s))

RECURSIVE ClientUnescape(_)
\* the page's script (part_001 line 197): ev.data.replace(/\\n/g, '\n')
ClientUnescape(s) ==
    IF s = <<>> THEN <<>>
    ELSE IF Len(s) >= 2 /\ s[1] = "\\" /\ s[2] = "n"
         THEN <<"nl">> \o ClientUnescape(SubSeq(s, 3, Len(s)))
    ELSE <<s[1]>> \o ClientUnescape(Tail(s))

DataEvent(payload) == [type |-> "data", data |-> payload]
DoneEvent == [type |-> "done", data |-> <<"done">>]
ErrorEvent == [type |-> "error", data |-> <<"decode">>]

ForwardIncrementSilentError(frame) ==
    IF frame.kind = "malformed" THEN [events |-> <<>>, stop |-> TRUE]
    ELSE [events |-> (IF frame.response # <<>> THEN <<DataEvent(Escape(frame.response))>>
                      ELSE <<>>)
                     \o (IF frame.done THEN <<DoneEvent>> ELSE <<>>),
          stop |-> frame.done]

\* query.go lines 78-97: what one decoded frame makes the loop write, and
\* whether the loop breaks
ForwardIncrement(frame) ==
    IF frame.kind = "malformed" THEN [events |-> <<ErrorEvent>>, stop |-> TRUE]
    ELSE [events |-> (IF frame.response # <<>> THEN <<DataEvent(Escape(frame.response))>>
                      ELSE <<>>)
                     \o (IF frame.done THEN <<DoneEvent>> ELSE <<>>),
          stop |-> frame.done]

InitAnswer ==
    /\ qpc = "new" /\ question = <<>> /\ lookup = NoLookup
    /\ connected = TRUE /\ body = <<>>
    /\ received = <<>> /\ sent = <<>> /\ httpStatus = 0
    /\ chunkSize = 0 /\ chunkOverlap = 0
    /\ IdleChunk /\ IdleStore /\ IdleIndex /\ IdleSearchVars

otherThanAnswer == <<cfgVars, chunkVars, storeVars, indexVars, searchVars>>

\* query.go lines 23-36: method and question are checked, searchFn is called
\* and its embedding request goes out
QueryStart ==
    /\ qpc = "new"
    /\ \E method \in {"GET", "POST"}, q \in Questions :
         IF method # "GET"
         THEN qpc' = "closed" /\ httpStatus' = 405 /\ UNCHANGED question
         ELSE IF TrimSpace(q) = <<>>
         THEN qpc' = "closed" /\ httpStatus' = 400 /\ question' = TrimSpace(q)
         ELSE qpc' = "embedding" /\ question' = TrimSpace(q) /\ UNCHANGED httpStatus
    /\ UNCHANGED <<lookup, connected, body, received, sent, otherThanAnswer>>

\* part_001 lines 113-116, query.go 37-40: the embedding call returns; it
\* was made without the request's context
EmbedReturn ==
    /\ qpc = "embedding"
    /\ \E reply \in EmbedReplies :
         IF GenerateEmbedding(reply).ok
         THEN /\ qpc' = "searching" /\ UNCHANGED httpStatus
              /\ lookup' = [lookup EXCEPT !.embed = "ok"]
         ELSE /\ qpc' = "closed" /\ httpStatus' = 500
              /\ lookup' = [lookup EXCEPT !.embed = "failed"]
    /\ UNCHANGED <<question, connected, body, received, sent, otherThanAnswer>>

\* part_001 lines 117-125, part_000 lines 75-92, query.go 37-65: the store
\* query returns.  It carries the request's context, so it does not succeed
\* once the caller is gone.  A failure that conn.Query returns ("send") comes
\* back as an error; a failure while the rows are read ("exec") only ends
\* rows.Next, and with rows.Err never read SearchSimilar returns the rows it
\* has and no error.  Then the prompt is built, the response is checked for a
\* Flusher and the generation request goes out, without the request's context
SearchReturn ==
    /\ qpc = "searching"
    /\ \E outcome \in {"ok", "send", "exec"}, flusher \in BOOLEAN :
         /\ (~connected) => outcome # "ok"
         /\ lookup' = [lookup EXCEPT !.store = outcome]
         /\ IF outcome = "send"
            THEN qpc' = "closed" /\ httpStatus' = 500
            ELSE IF ~flusher
            THEN qpc' = "closed" /\ httpStatus' = 500
            ELSE qpc' = "posting" /\ UNCHANGED httpStatus
    /\ UNCHANGED <<question, connected, body, received, sent, otherThanAnswer>>

\* query.go lines 65-72: the generation request fails, or its response
\* arrives and the decoder is set on its body
PostReturn ==
    /\ qpc = "posting"
    /\ \/ /\ qpc' = "closed" /\ httpStatus' = 502
          /\ UNCHANGED body
       \/ /\ qpc' = "streaming" /\ httpStatus' = 200
          /\ body' \in FramesUpTo(MaxIncr)
    /\ UNCHANGED <<question, lookup, connected, received, sent, otherThanAnswer>>

\* query.go lines 73-98: one iteration of the loop
StreamDecode ==
    /\ qpc = "streaming"
    /\ IF body = <<>>
       THEN \* io.EOF: break
            /\ qpc' = "closed"
            /\ UNCHANGED <<body, received, sent>>
       ELSE LET out == ForwardIncrement(Head(body))
            IN  /\ received' = Append(received, Head(body))
                /\ body' = Tail(body)
                /\ sent' = sent \o out.events
                /\ qpc' = IF out.stop THEN "closed" ELSE "streaming"
    /\ UNCHANGED <<question, lookup, connected, httpStatus, otherThanAnswer>>

\* the caller goes away; nothing in the handler looks at it
Disconnect ==
    /\ connected
    /\ qpc \notin {"new", "closed"}
    /\ connected' = FALSE
    /\ UNCHANGED <<qpc, question, lookup, body, received, sent, httpStatus, otherThanAnswer>>

NextAnswer ==
    \/ QueryStart
    \/ EmbedReturn
    \/ SearchReturn
    \/ PostReturn
    \/ StreamDecode
    \/ Disconnect

SpecAnswer == InitAnswer /\ [][NextAnswer]_vars

(***************************************************************************)
(* Claims about the answer stream.                                         *)
(***************************************************************************)
Last(s) == s[Len(s)]

Terminal(e) == e.type \in {"done", "error"}

Started == httpStatus = 200

\* C2: a stream that has started and has ended carries exactly one terminal
\* event, done or error, and that event is its last one.
C2_StreamEndsWithTerminalEvent ==
    (Started /\ qpc = "closed") =>
        /\ sent # <<>>
        /\ Terminal(Last(sent))
        /\ \A k \in 1..(Len(sent) - 1) : ~Terminal(sent[k])

DataEvents == SelectSeq(sent, LAMBDA e : e.type = "data")

TextIncrements == SelectSeq(received, LAMBDA f : f.kind = "json" /\ f.response # <<>>)

RECURSIVE Concat(_)
Concat(ss) == IF ss = <<>> THEN <<>> ELSE Head(ss) \o Concat(Tail(ss))

\* C3: the text events, as the page decodes them, are the non-empty partial
\* texts of the decoded increments, one for one and in order; their
\* concatenation is the generated text.
C3_ForwardedTextExact ==
    /\ Len(DataEvents) = Len(TextIncrements)
    /\ \A k \in 1..Len(DataEvents) :
           ClientUnescape(DataEvents[k].data) = TextIncrements[k].response
    /\ Concat([k \in 1..Len(DataEvents) |-> ClientUnescape(DataEvents[k].data)])
           = Concat([k \in 1..Len(TextIncrements) |-> TextIncrements[k].response])

MalformedSeen == received # <<>> /\ Last(received).kind = "malformed"

\* C4 as stated: every generation error, the backend unreachable or a frame
\* that does not decode, shows as an error event that ends the stream.
C4_GenerationErrorIsEvent ==
    (qpc = "closed" /\ (httpStatus = 502 \/ MalformedSeen)) =>
        /\ sent # <<>>
        /\ Last(sent).type = "error"

\* C4 amended: a frame that does not decode shows as one error event that is
\* the last event of the stream; an unreachable backend shows as the HTTP
\* status 502 with no event at all.
C4_MalformedIsEventUnreachableIs502 ==
    /\ MalformedSeen =>
           /\ qpc = "closed"
           /\ sent # <<>> /\ Last(sent).type = "error"
           /\ \A k \in 1..(Len(sent) - 1) : ~Terminal(sent[k])
    /\ httpStatus = 502 => (qpc = "closed" /\ sent = <<>> /\ received = <<>>)

C4_Witness ==
    /\ qpc = "closed" /\ MalformedSeen
    /\ Len(received) >= 2
    /\ Len(sent) >= 2
    /\ sent[1].type = "data"

\* C5: once the caller has disconnected the streaming loop stops: no further
\* increment is decoded and no further event is written.
C5_DisconnectStopsStream ==
    [][(~connected) => (received' = received /\ sent' = sent)]_vars

GenerationContacted == qpc \in {"posting", "streaming"} \/ httpStatus \in {200, 502}

\* C12: the generation backend is contacted and events are written only after
\* the question was found non-empty, its embedding succeeded and the store
\* search succeeded, in that order; an empty question, a failed embedding or
\* a failed store search ends the call with an error status, no generation
\* request and no event.
C12_GenerationOnlyAfterLookup ==
    /\ lookup.embed # "none" => question # <<>>
    /\ lookup.store # "none" => lookup.embed = "ok"
    /\ (GenerationContacted \/ sent # <<>>) =>
           (question # <<>> /\ lookup.embed = "ok" /\ lookup.store = "ok")
    /\ (qpc # "new" /\ question = <<>>) =>
           (qpc = "closed" /\ httpStatus \in {400, 405} /\ sent = <<>>)
    /\ (lookup.embed = "failed" \/ lookup.store \in {"send", "exec"}) =>
           (qpc = "closed" /\ httpStatus = 500 /\ sent = <<>>)

====
